---- MODULE Spec2Model ----
(***************************************************************************)
(* A model of src/Лаб2/bot.py: the Telegram bot that checks a student's   *)
(* laboratory work with an LLM.  The model covers handle_document (the     *)
(* pipeline run for one submitted document), check_with_ai,                *)
(* format_llm_to_html and the line chunker inside handle_document.         *)
(*                                                                         *)
(* Text is a sequence of characters; a character is a one-character        *)
(* string.  A character outside ASCII is written by its code point         *)
(* ("U+2022" is the bullet), and a Cyrillic letter of a literal of the     *)
(* source is written as a Latin letter of the same case, one for one, so   *)
(* lengths and upper/lower case are those of the source.                   *)
(***************************************************************************)
EXTENDS Integers, Sequences, FiniteSets, TLC

VARIABLES
    pc,          \* where the run of handle_document stands (the pending call)
    file_name,   \* document.file_name
    file_size,   \* document.file_size
    file_ext,    \* Path(file_name).suffix.lower()
    status_msg,  \* the text the status message shows (edited in place)
    temp_path,   \* the local temp_path: "None" or the temporary file's name
    disk,        \* the temporary files that exist on disk
    content,     \* the extracted text
    result,      \* what check_with_ai returned
    exc,         \* the exception the except clause caught (or that escaped)
    formatted,   \* format_llm_to_html(result)
    max_chunk,   \* the chunker's budget
    chunks,      \* the chunks the chunker produced
    i,           \* the index of the next chunk to send (0-based, as enumerate)
    sent,        \* the messages message.answer delivered, in order
    log,         \* what the run did: the calls it made and where it failed
    OPENAI_MODEL, \* the environment variable: "unset" or a model identifier
    others       \* the steps the runs of other documents have taken

vars == <<pc, file_name, file_size, file_ext, status_msg, temp_path, disk,
          content, result, exc, formatted, max_chunk, chunks, i, sent, log,
          OPENAI_MODEL, others>>

----------------------------------------------------------------------------
(* Bounds of the model.                                                    *)

\* the longest text the chunker is given in ChunkSpec, all texts up to it
MaxLen == 5
\* the budgets the chunker is given in ChunkSpec: 1..MaxBudget
MaxBudget == 4
\* the file sizes tried around MAX_FILE_SIZE: MAX_FILE_SIZE -+ SizeSpan
SizeSpan == 2
\* the longest raw answer the formatter is given in FormatSpec, all answers
\* up to it
MaxRaw == 3
\* how many steps the runs of other submissions take in ConcSpec
MaxOtherSteps == 2

----------------------------------------------------------------------------
(* Characters and strings.                                                 *)

\* the characters at which str.splitlines ends a line ("\r\n" is one end)
LineBreaks ==
    {"\n", "\r", "\f", "U+000B", "U+001C", "U+001D", "U+001E", "U+0085",
     "U+2028", "U+2029"}

\* the characters str.strip removes
Whitespace == {" ", "\t"} \cup LineBreaks

Upper ==
    {"A", "B", "C", "D", "E", "F", "G", "H", "I", "J", "K", "L", "M", "N",
     "O", "P", "Q", "R", "S", "T", "U", "V", "W", "X", "Y", "Z"}

Lower ==
    {"a", "b", "c", "d", "e", "f", "g", "h", "i", "j", "k", "l", "m", "n",
     "o", "p", "q", "r", "s", "t", "u", "v", "w", "x", "y", "z"}

Bullet == "U+2022"

\* n copies of the character c
Rep(n, c) == [k \in 1..n |-> c]

Min(S) == CHOOSE e \in S : \A f \in S : e <= f

\* the concatenation of a sequence of strings
RECURSIVE Concat(_)
Concat(ss) == IF ss = <<>> THEN <<>> ELSE Head(ss) \o Concat(Tail(ss))

\* sep.join(ss)
RECURSIVE Join(_, _)
Join(ss, sep) ==
    IF ss = <<>> THEN <<>>
    ELSE IF Len(ss) = 1 THEN Head(ss)
    ELSE Head(ss) \o sep \o Join(Tail(ss), sep)

\* position k of s is the last character of a line
IsLineEnd(s, k) ==
    \/ k = Len(s)
    \/ /\ s[k] \in LineBreaks
       /\ ~(s[k] = "\r" /\ s[k + 1] = "\n")

LineEnds(s) == {k \in 1..Len(s) : IsLineEnd(s, k)}

RECURSIVE LinesFrom(_, _, _)
LinesFrom(s, start, ends) ==
    IF ends = {} THEN <<>>
    ELSE LET e == Min(ends)
         IN  <<SubSeq(s, start, e)>> \o LinesFrom(s, e + 1, ends \ {e})

\* s.splitlines(keepends=True)
SplitLinesKeep(s) == LinesFrom(s, 1, LineEnds(s))

\* a line of splitlines(keepends=True) without its terminator
DropTerminator(ln) ==
    LET n == Len(ln)
    IN  IF n = 0 \/ ln[n] \notin LineBreaks THEN ln
        ELSE IF n >= 2 /\ ln[n] = "\n" /\ ln[n - 1] = "\r"
             THEN SubSeq(ln, 1, n - 2)
        ELSE SubSeq(ln, 1, n - 1)

\* s.splitlines()
SplitLines(s) ==
    LET kept == SplitLinesKeep(s)
    IN  [k \in 1..Len(kept) |-> DropTerminator(kept[k])]

----------------------------------------------------------------------------
(* The chunker of handle_document.                                         *)

\* a budget check that forgets the line about to be appended
MustFlushIgnoringLine(cur, ln, budget) == Len(cur) > budget /\ cur # <<>>

\* if len(cur) + len(ln) > max_chunk and cur:
MustFlush(cur, ln, budget) == Len(cur) + Len(ln) > budget /\ cur # <<>>

\* a flush that forgets cur = ''
CurAfterNoReset(cur, ln, flush) == cur \o ln

\* cur = '' when the buffer was closed, then cur += ln
CurAfter(cur, ln, flush) == (IF flush THEN <<>> ELSE cur) \o ln

\* a loop whose final flush does not look at the buffer
RECURSIVE ChunkLoopAlwaysFlush(_, _, _, _)
ChunkLoopAlwaysFlush(lines, cur, acc, budget) ==
    IF lines = <<>> THEN Append(acc, cur)
    ELSE LET ln == Head(lines)
             flush == MustFlush(cur, ln, budget)
         IN  ChunkLoopAlwaysFlush(Tail(lines), CurAfter(cur, ln, flush),
                                  IF flush THEN Append(acc, cur) ELSE acc,
                                  budget)

\* the for loop over lines and the final flush of a non-empty buffer
RECURSIVE ChunkLoop(_, _, _, _)
ChunkLoop(lines, cur, acc, budget) ==
    IF lines = <<>> THEN (IF cur # <<>> THEN Append(acc, cur) ELSE acc)
    ELSE LET ln == Head(lines)
             flush == MustFlush(cur, ln, budget)
         IN  ChunkLoop(Tail(lines), CurAfter(cur, ln, flush),
                       IF flush THEN Append(acc, cur) ELSE acc, budget)

Chunker(text, budget) == ChunkLoop(SplitLinesKeep(text), <<>>, <<>>, budget)

----------------------------------------------------------------------------
(* html.escape and format_llm_to_html.                                     *)

\* s.replace(c, rep) for a character c
RECURSIVE Replace(_, _, _)
Replace(s, c, rep) ==
    IF Len(s) = 0 THEN <<>>
    ELSE IF Len(s) = 1 THEN (IF s[1] = c THEN rep ELSE s)
    ELSE LET h == Len(s) \div 2
         IN  Replace(SubSeq(s, 1, h), c, rep)
                 \o Replace(SubSeq(s, h + 1, Len(s)), c, rep)

\* an escape that leaves the angle brackets alone
EscapeAmpOnly(s) == Replace(s, "&", <<"&", "a", "m", "p", ";">>)

\* an escape that escapes nothing
EscapeNothing(s) == s

\* html.escape(s): & first, then < > " '
Escape(s) ==
    LET s1 == Replace(s, "&", <<"&", "a", "m", "p", ";">>)
        s2 == Replace(s1, "<", <<"&", "l", "t", ";">>)
        s3 == Replace(s2, ">", <<"&", "g", "t", ";">>)
        s4 == Replace(s3, "\"", <<"&", "q", "u", "o", "t", ";">>)
    IN  Replace(s4, "'", <<"&", "#", "x", "2", "7", ";">>)

\* s.lstrip(chars)
LStripChars(s, chars) ==
    LET keep == {k \in 1..Len(s) : s[k] \notin chars}
    IN  IF keep = {} THEN <<>> ELSE SubSeq(s, Min(keep), Len(s))

\* s.rstrip(chars)
RStripChars(s, chars) ==
    LET n == Len(s)
        back == {k \in 1..n : s[n + 1 - k] \notin chars}
    IN  IF back = {} THEN <<>> ELSE SubSeq(s, 1, n + 1 - Min(back))

\* s.strip()
Strip(s) == RStripChars(LStripChars(s, Whitespace), Whitespace)

\* s.isupper(): a cased character, and no lower-case one
IsUpper(s) ==
    /\ \E k \in 1..Len(s) : s[k] \in Upper
    /\ \A k \in 1..Len(s) : s[k] \notin Lower

\* s.endswith(':') or (s.isupper() and len(s) < 200)
IsHeading(s) == s[Len(s)] = ":" \/ (IsUpper(s) /\ Len(s) < 200)

\* s.startswith('-') or s.startswith(bullet) or s.startswith('*')
IsBullet(s) == s[1] \in {"-", Bullet, "*"}

\* a loop body that tests for a bullet before it tests for a heading
FormatLineBulletFirst(line) ==
    LET s == Strip(line)
    IN  IF s = <<>> THEN <<>>
        ELSE IF IsBullet(s)
             THEN <<Bullet, " ">>
                      \o Escape(Strip(LStripChars(s, {"-", Bullet, "*", " "})))
        ELSE IF IsHeading(s)
             THEN <<"<", "b", ">">> \o Escape(s) \o <<"<", "/", "b", ">">>
        ELSE Escape(s)

\* the body of the for loop of format_llm_to_html for one line
FormatLine(line) ==
    LET s == Strip(line)
    IN  IF s = <<>> THEN <<>>
        ELSE IF IsHeading(s)
             THEN <<"<", "b", ">">> \o Escape(s) \o <<"<", "/", "b", ">">>
        ELSE IF IsBullet(s)
             THEN <<Bullet, " ">>
                      \o Escape(Strip(LStripChars(s, {"-", Bullet, "*", " "})))
        ELSE Escape(s)

format_llm_to_html(text) ==
    LET lines == SplitLines(text)
    IN  Join([k \in 1..Len(lines) |-> FormatLine(lines[k])], <<"\n">>)

----------------------------------------------------------------------------
(* Constants and literals of the source.                                   *)

MAX_FILE_SIZE == 20 * 1024 * 1024

SUPPORTED_FORMATS ==
    {<<".", "p", "d", "f">>, <<".", "d", "o", "c", "x">>, <<".", "t", "x", "t">>}

\* max_chunk = 3500
MaxChunk == 3500

\* the name tempfile.NamedTemporaryFile gives the temporary file
TmpFile == "tmp"

\* the text of the answer check_with_ai returns when the endpoint raised e
FallbackPrefix ==
    << "U+274C", " ", "O", "w", "i", "b", "k", "a", " ", "p", "r", "i", " ",
       "o", "b", "r", "a", "x", "e", "n", "i", "i", " ", "k", " ", "I", "I",
       ":", " " >>

FallbackSuffix ==
    << "\n", "\n", "P", "o", "p", "r", "o", "b", "u", "y", "t", "e", " ", "e",
       "x", "e", " ", "r", "a", "z", " ", "q", "e", "r", "e", "z", " ", "n",
       "e", "s", "k", "o", "l", "y", "k", "o", " ", "m", "i", "n", "u", "t",
       "." >>

Fallback(e) == FallbackPrefix \o e \o FallbackSuffix

\* raise Exception(...) of the emptiness check
EmptyContentMsg ==
    << "F", "a", "y", "l", " ", "p", "u", "s", "t", " ", "i", "l", "i", " ",
       "n", "e", " ", "s", "o", "d", "e", "r", "j", "i", "t", " ", "q", "i",
       "t", "a", "e", "m", "o", "g", "o", " ", "t", "e", "k", "s", "t", "a" >>

\* raise Exception(...) of the extraction dispatch's else branch
UnsupportedMsg ==
    << "N", "e", "p", "o", "d", "d", "e", "r", "j", "i", "v", "a", "e", "m",
       "y", "y", " ", "f", "o", "r", "m", "a", "t" >>

\* str(e) of the AttributeError text.splitlines() raises on None
NoneTypeMsg ==
    << "'", "N", "o", "n", "e", "T", "y", "p", "e", "'", " ", "o", "b", "j",
       "e", "c", "t", " ", "h", "a", "s", " ", "n", "o", " ", "a", "t", "t",
       "r", "i", "b", "u", "t", "e", " ", "'", "s", "p", "l", "i", "t", "l",
       "i", "n", "e", "s", "'" >>

----------------------------------------------------------------------------
(* Path(file_name).suffix.lower()                                          *)

UpperSeq ==
    <<"A", "B", "C", "D", "E", "F", "G", "H", "I", "J", "K", "L", "M", "N",
      "O", "P", "Q", "R", "S", "T", "U", "V", "W", "X", "Y", "Z">>

LowerSeq ==
    <<"a", "b", "c", "d", "e", "f", "g", "h", "i", "j", "k", "l", "m", "n",
      "o", "p", "q", "r", "s", "t", "u", "v", "w", "x", "y", "z">>

\* str.lower() of one character
ToLower(c) ==
    IF c \in Upper THEN LowerSeq[CHOOSE k \in 1..26 : UpperSeq[k] = c] ELSE c

StrLower(s) == [k \in 1..Len(s) |-> ToLower(s[k])]

\* PurePath.name: what follows the last separator
PathName(path) ==
    LET seps == {k \in 1..Len(path) : path[Len(path) + 1 - k] = "/"}
    IN  IF seps = {} THEN path
        ELSE SubSeq(path, Len(path) + 2 - Min(seps), Len(path))

\* PurePath.suffix: from the last dot of the name, unless the dot is the
\* first or the last character of the name
PathSuffix(path) ==
    LET name == PathName(path)
        n == Len(name)
        dots == {k \in 1..n : name[n + 1 - k] = "."}
    IN  IF dots = {} THEN <<>>
        ELSE LET d == n + 1 - Min(dots)
             IN  IF 1 < d /\ d < n THEN SubSeq(name, d, n) ELSE <<>>

----------------------------------------------------------------------------
(* The inputs of a run: the submitted document, what the extractor reads,  *)
(* what the grading endpoint answers, and the errors the platform, the     *)
(* extractor and the endpoint raise.                                       *)

FileNames ==
    { <<"r", ".", "p", "d", "f">>, <<"L", ".", "P", "D", "F">>,
      <<"w", ".", "D", "o", "c", "x">>, <<"a", "&", "b", ".", "t", "x", "t">>,
      <<"o", ".", "d", "o", "c">>, <<"a", ".", "r", "t", "f">>,
      <<"R", "E", "A", "D">>, <<".", "p", "d", "f">>, <<"p", "d", "f">>,
      <<"a", ".", "t", "x", "t", ".">>, <<"a", ".", "p", "d", "f", "x">> }

FileSizes ==
    {1024, 25 * 1024 * 1024}
        \cup ((MAX_FILE_SIZE - SizeSpan)..(MAX_FILE_SIZE + SizeSpan))

\* str(e) of the exceptions raised by the collaborators
ErrDescs ==
    { <<"t", "i", "m", "e", "o", "u", "t">>,
      <<"4", "0", "1", " ", "<", "k", "e", "y", ">", " ", "&", " ", "'", "x",
        "'">> }

\* the texts the extractors return
Contents ==
    { <<>>, <<" ", "\n", "\t">>, <<"l", "a", "b">>, <<" ", "x", "\n">> }

\* three lines of 1800 characters: more than one message can carry
LongAnswer ==
    Join(<<Rep(1800, "a"), Rep(1800, "b"), Rep(1800, "c")>>, <<"\n">>)

\* the texts the endpoint answers with
Answers ==
    { <<>>,
      <<"H", "E", "A", "D", "E", "R", ":", "\n", "-", " ", "i", "t", "e", "m",
        " ", "o", "n", "e", "\n", "P", "l", "a", "i", "n", " ", "l", "i", "n",
        "e">>,
      <<"a", "<", "b", ">", "&", "c">>,
      LongAnswer }

\* the values OPENAI_MODEL is set to, when it is set
ModelOverrides == {"openai/gpt-4o-mini"}

\* os.getenv(name, default) of a variable whose value is value
Getenv(value, default) == IF value = "unset" THEN default ELSE value

\* MODEL = os.getenv("OPENAI_MODEL", "qwen/qwen3-235b-a22b:free")
MODEL == Getenv(OPENAI_MODEL, "qwen/qwen3-235b-a22b:free")

\* model="anthropic/claude-3.5-sonnet" of the completion request
RequestModel == "anthropic/claude-3.5-sonnet"

NoExc == [raised |-> FALSE, desc |-> <<>>]

Raised(e) == [raised |-> TRUE, desc |-> e]

\* what openrouter.chat.completions.create does: it answers with a text,
\* answers with no content (None), or raises
EndpointOutcomes ==
    [ok : {TRUE}, none : {FALSE}, text : Answers, err : {<<>>}]
        \cup {[ok |-> TRUE, none |-> TRUE, text |-> <<>>, err |-> <<>>]}
        \cup [ok : {FALSE}, none : {FALSE}, text : {<<>>}, err : ErrDescs]

NoMessage == [kind |-> "none", n |-> 0, body |-> <<>>]

Message(kind, n, body) == [kind |-> kind, n |-> n, body |-> body]

NoResult == [none |-> TRUE, text |-> <<>>]

InitLog ==
    [ created   |-> {},       \* the temporary files the run created
      download  |-> "none",   \* bot.download_file: "none", "ok", "failed"
      extract   |-> "none",   \* the extractor: "none", "ok", "failed"
      graded    |-> FALSE,    \* the grading endpoint was invoked
      gradeErr  |-> NoExc,    \* what the grading endpoint raised
      model     |-> "none",   \* the model identifier of the grading request
      verdict   |-> "none",   \* the outcome of the size and format checks
      failedAt  |-> "none",   \* the call whose exception the handler caught
      swallowed |-> FALSE ]   \* the except clause's unlink itself failed

\* the values every run starts from
Blank ==
    /\ file_name = <<>>
    /\ file_size = 0
    /\ file_ext = <<>>
    /\ status_msg = NoMessage
    /\ temp_path = "None"
    /\ disk = {}
    /\ content = <<>>
    /\ result = NoResult
    /\ exc = NoExc
    /\ formatted = <<>>
    /\ chunks = <<>>
    /\ i = 0
    /\ sent = <<>>
    /\ log = InitLog
    /\ others = 0

Init ==
    /\ pc = "idle"
    /\ max_chunk = MaxChunk
    /\ OPENAI_MODEL \in {"unset"} \cup ModelOverrides
    /\ Blank

----------------------------------------------------------------------------
(* handle_document: the checks before the try block.                       *)

\* a size check that also turns away a file of exactly the maximum
TooLargeAtBoundary(size) == size >= MAX_FILE_SIZE

\* if file_size > MAX_FILE_SIZE:
TooLarge(size) == size > MAX_FILE_SIZE

\* an extension taken without .lower()
FileExtCaseSensitive(name) == PathSuffix(name)

\* file_ext = Path(file_name).suffix.lower()
FileExt(name) == StrLower(PathSuffix(name))

\* the two checks with the format check first
ValidateFormatFirst(size, name) ==
    IF FileExt(name) \notin SUPPORTED_FORMATS THEN "UnsupportedFormat"
    ELSE IF TooLarge(size) THEN "FileTooLarge"
    ELSE "Accepted"

\* the size check, then the format check
Validate(size, name) ==
    IF TooLarge(size) THEN "FileTooLarge"
    ELSE IF FileExt(name) \notin SUPPORTED_FORMATS THEN "UnsupportedFormat"
    ELSE "Accepted"

\* the handler is entered with a document and runs up to its first await
Receive ==
    /\ pc = "idle"
    /\ \E name \in FileNames, size \in FileSizes :
          LET verdict == Validate(size, name)
          IN  /\ file_name' = name
              /\ file_size' = size
              /\ file_ext' = IF verdict = "FileTooLarge" THEN <<>>
                             ELSE FileExt(name)
              /\ log' = [log EXCEPT !.verdict = verdict]
              /\ pc' = CASE verdict = "FileTooLarge" -> "send_too_large"
                         [] verdict = "UnsupportedFormat" -> "send_unsupported"
                         [] OTHER -> "send_status"
    /\ UNCHANGED <<OPENAI_MODEL, others>>
    /\ UNCHANGED <<status_msg, temp_path, disk, content, result, exc,
                   formatted, max_chunk, chunks, i, sent>>

\* an exception raised outside the try block leaves the handler
Escapes(e) ==
    /\ exc' = Raised(e)
    /\ pc' = "Escaped"

\* await message.answer(...) of the size check, then return
SendTooLarge ==
    /\ pc = "send_too_large"
    /\ \/ /\ sent' = Append(sent, Message("too_large", file_size, <<>>))
          /\ pc' = "Rejected"
          /\ UNCHANGED exc
       \/ /\ \E e \in ErrDescs : Escapes(e)
          /\ UNCHANGED sent
    /\ UNCHANGED <<OPENAI_MODEL, others>>
    /\ UNCHANGED <<file_name, file_size, file_ext, status_msg, temp_path, disk,
                   content, result, formatted, max_chunk, chunks, i, log>>

\* await message.answer(...) of the format check, then return
SendUnsupported ==
    /\ pc = "send_unsupported"
    /\ \/ /\ sent' = Append(sent, Message("unsupported", 0, Escape(file_ext)))
          /\ pc' = "Rejected"
          /\ UNCHANGED exc
       \/ /\ \E e \in ErrDescs : Escapes(e)
          /\ UNCHANGED sent
    /\ UNCHANGED <<OPENAI_MODEL, others>>
    /\ UNCHANGED <<file_name, file_size, file_ext, status_msg, temp_path, disk,
                   content, result, formatted, max_chunk, chunks, i, log>>

\* status_msg = await message.answer(...); temp_path = None
SendStatus ==
    /\ pc = "send_status"
    /\ \/ /\ status_msg' = Message("loading", 0, <<>>)
          /\ temp_path' = "None"
          /\ pc' = "get_file"
          /\ UNCHANGED exc
       \/ /\ \E e \in ErrDescs : Escapes(e)
          /\ UNCHANGED <<status_msg, temp_path>>
    /\ UNCHANGED <<OPENAI_MODEL, others>>
    /\ UNCHANGED <<file_name, file_size, file_ext, disk, content, result,
                   formatted, max_chunk, chunks, i, sent, log>>

----------------------------------------------------------------------------
(* handle_document: the try block and its except clause.                   *)

\* an except clause that forgets to delete the temporary file
DiskAfterNoCleanup(tp, d) == d

\* os.unlink(path) of a file that exists
Unlink(path, d) == d \ {path}

\* if temp_path: try: os.unlink(temp_path) except: pass
DiskAfterCleanup(tp, d) == IF tp # "None" THEN Unlink(tp, d) ELSE d

\* except Exception as e: the cleanup, up to the await of the banner edit;
\* lg is the log of the run up to the raise
Caught(e, at, lg) ==
    /\ exc' = Raised(e)
    /\ disk' = DiskAfterCleanup(temp_path, disk)
    /\ log' = [lg EXCEPT !.failedAt = at,
                         !.swallowed = (temp_path # "None"
                                            /\ temp_path \notin disk)]
    /\ pc' = "edit_error"

\* file = await bot.get_file(...), then NamedTemporaryFile(delete=False)
\* creates the temporary file
GetFile ==
    /\ pc = "get_file"
    /\ \/ /\ disk' = disk \cup {TmpFile}
          /\ log' = [log EXCEPT !.created = @ \cup {TmpFile}]
          /\ pc' = "download"
          /\ UNCHANGED exc
       \/ \E e \in ErrDescs : Caught(e, "get_file", log)
    /\ UNCHANGED <<OPENAI_MODEL, others>>
    /\ UNCHANGED <<file_name, file_size, file_ext, status_msg, temp_path,
                   content, result, formatted, max_chunk, chunks, i, sent>>

\* await bot.download_file(file.file_path, tmp_file.name) inside the with
\* block, then temp_path = tmp_file.name; a raise leaves the with block,
\* which closes the file and keeps it (delete=False), with temp_path None
Download ==
    /\ pc = "download"
    /\ \/ /\ temp_path' = TmpFile
          /\ log' = [log EXCEPT !.download = "ok"]
          /\ pc' = "edit_loaded"
          /\ UNCHANGED <<exc, disk>>
       \/ /\ \E e \in ErrDescs :
                Caught(e, "download", [log EXCEPT !.download = "failed"])
          /\ UNCHANGED temp_path
    /\ UNCHANGED <<OPENAI_MODEL, others>>
    /\ UNCHANGED <<file_name, file_size, file_ext, status_msg, content, result,
                   formatted, max_chunk, chunks, i, sent>>

\* await status_msg.edit_text(... file loaded ...)
EditLoaded ==
    /\ pc = "edit_loaded"
    /\ \/ /\ status_msg' = Message("loaded", 0, <<>>)
          /\ pc' = "extract"
          /\ UNCHANGED <<exc, disk, log>>
       \/ /\ \E e \in ErrDescs : Caught(e, "edit_loaded", log)
          /\ UNCHANGED status_msg
    /\ UNCHANGED <<OPENAI_MODEL, others>>
    /\ UNCHANGED <<file_name, file_size, file_ext, temp_path, content, result,
                   formatted, max_chunk, chunks, i, sent>>

\* an emptiness check that forgets to trim
IsEmptyUntrimmed(c) == c = <<>>

\* if not content.strip():
IsEmptyContent(c) == Strip(c) = <<>>

\* content = await extract_txt / extract_docx / extract_pdf (temp_path) by
\* file_ext, else raise; then the emptiness check
Extract ==
    /\ pc = "extract"
    /\ IF file_ext \in SUPPORTED_FORMATS
       THEN \/ \E c \in Contents :
                  /\ content' = c
                  /\ IF IsEmptyContent(c)
                     THEN Caught(EmptyContentMsg, "empty",
                                 [log EXCEPT !.extract = "ok"])
                     ELSE /\ pc' = "edit_extracted"
                          /\ log' = [log EXCEPT !.extract = "ok"]
                          /\ UNCHANGED <<exc, disk>>
            \/ /\ \E e \in ErrDescs :
                     Caught(e, "extract", [log EXCEPT !.extract = "failed"])
               /\ UNCHANGED content
       ELSE /\ Caught(UnsupportedMsg, "extract", log)
            /\ UNCHANGED content
    /\ UNCHANGED <<OPENAI_MODEL, others>>
    /\ UNCHANGED <<file_name, file_size, file_ext, status_msg, temp_path,
                   result, formatted, max_chunk, chunks, i, sent>>

\* await status_msg.edit_text(... content extracted ...), then
\* check_with_ai(content) runs up to its call of the endpoint
EditExtracted ==
    /\ pc = "edit_extracted"
    /\ \/ /\ status_msg' = Message("extracted", 0, <<>>)
          /\ log' = [log EXCEPT !.graded = TRUE, !.model = RequestModel]
          /\ pc' = "grading"
          /\ UNCHANGED <<exc, disk>>
       \/ /\ \E e \in ErrDescs : Caught(e, "edit_extracted", log)
          /\ UNCHANGED status_msg
    /\ UNCHANGED <<OPENAI_MODEL, others>>
    /\ UNCHANGED <<file_name, file_size, file_ext, temp_path, content, result,
                   formatted, max_chunk, chunks, i, sent>>

\* a check_with_ai without its except clause
check_with_ai_reraising(o) ==
    [raises |-> ~o.ok, none |-> o.none, text |-> o.text, desc |-> o.err]

\* check_with_ai: return response.choices[0].message.content, or the
\* fallback text when the endpoint raised
check_with_ai(o) ==
    IF o.ok THEN [raises |-> FALSE, none |-> o.none, text |-> o.text,
                  desc |-> <<>>]
    ELSE [raises |-> FALSE, none |-> FALSE, text |-> Fallback(o.err),
          desc |-> <<>>]

\* the endpoint answers or raises inside check_with_ai; then
\* if temp_path: os.unlink(temp_path)
GradeReturn ==
    /\ pc = "grading"
    /\ \E o \in EndpointOutcomes :
          LET r == check_with_ai(o)
              lg == IF o.ok THEN log
                    ELSE [log EXCEPT !.gradeErr = Raised(o.err)]
          IN  IF r.raises
              THEN /\ Caught(r.desc, "grading", lg)
                   /\ UNCHANGED result
              ELSE /\ result' = [none |-> r.none, text |-> r.text]
                   /\ IF temp_path # "None" /\ temp_path \notin disk
                      THEN Caught(<<"E", "N", "O", "E", "N", "T">>, "unlink",
                                  lg)
                      ELSE /\ disk' = IF temp_path # "None"
                                      THEN Unlink(temp_path, disk)
                                      ELSE disk
                           /\ log' = lg
                           /\ pc' = "edit_done"
                           /\ UNCHANGED exc
    /\ UNCHANGED <<OPENAI_MODEL, others>>
    /\ UNCHANGED <<file_name, file_size, file_ext, status_msg, temp_path,
                   content, formatted, max_chunk, chunks, i, sent>>

\* where the run is once the chunks are made: in the delivery loop, or past
\* it when there is no chunk to enumerate
AfterChunker(cs) == IF cs = <<>> THEN "send_ready" ELSE "send_chunk"

\* await status_msg.edit_text(... check finished ...), then
\* formatted = format_llm_to_html(result) and the chunker, up to the first
\* await of the delivery
EditDone ==
    /\ pc = "edit_done"
    /\ \/ /\ status_msg' = Message("done", Len(content), Escape(file_name))
          /\ IF result.none
             THEN /\ Caught(NoneTypeMsg, "format", log)
                  /\ UNCHANGED <<formatted, chunks, i>>
             ELSE /\ formatted' = format_llm_to_html(result.text)
                  /\ chunks' = Chunker(formatted', max_chunk)
                  /\ i' = 0
                  /\ pc' = AfterChunker(chunks')
                  /\ UNCHANGED <<exc, disk, log>>
       \/ /\ \E e \in ErrDescs : Caught(e, "edit_done", log)
          /\ UNCHANGED <<status_msg, formatted, chunks, i>>
    /\ UNCHANGED <<OPENAI_MODEL, others>>
    /\ UNCHANGED <<file_name, file_size, file_ext, temp_path, content, result,
                   max_chunk, sent>>

\* a labelling that numbers the continuations from 1
ChunkMessageFromOne(k, part) ==
    IF k = 0 THEN Message("result", 0, part)
    ELSE Message("continuation", k, part)

\* the label of chunk number k of enumerate(chunks): the result for k = 0,
\* a continuation numbered k + 1 otherwise
ChunkMessage(k, part) ==
    IF k = 0 THEN Message("result", 0, part)
    ELSE Message("continuation", k + 1, part)

\* a loop that is left after its first chunk
AfterFirstChunk(k, n) == "send_ready"

\* where the run is after chunk number k of n was sent: in the loop while
\* enumerate(chunks) has a next chunk, at the final message after the last
AfterChunk(k, n) == IF k = n THEN "send_ready" ELSE "send_chunk"

\* for i, part in enumerate(chunks): await message.answer(...)
SendChunk ==
    /\ pc = "send_chunk"
    /\ \/ /\ sent' = Append(sent, ChunkMessage(i, chunks[i + 1]))
          /\ i' = i + 1
          /\ pc' = AfterChunk(i + 1, Len(chunks))
          /\ UNCHANGED <<exc, disk, log>>
       \/ /\ \E e \in ErrDescs : Caught(e, "send_chunk", log)
          /\ UNCHANGED <<sent, i>>
    /\ UNCHANGED <<OPENAI_MODEL, others>>
    /\ UNCHANGED <<file_name, file_size, file_ext, status_msg, temp_path,
                   content, result, formatted, max_chunk, chunks>>

\* await message.answer(... done, send another file ...)
SendReady ==
    /\ pc = "send_ready"
    /\ \/ /\ sent' = Append(sent, Message("ready", 0, <<>>))
          /\ pc' = "Completed"
          /\ UNCHANGED <<exc, disk, log>>
       \/ /\ \E e \in ErrDescs : Caught(e, "send_ready", log)
          /\ UNCHANGED sent
    /\ UNCHANGED <<OPENAI_MODEL, others>>
    /\ UNCHANGED <<file_name, file_size, file_ext, status_msg, temp_path,
                   content, result, formatted, max_chunk, chunks, i>>

\* the error banner: the escaped str(e) in a <code> element
Banner(e) == Message("error", 0, Escape(e))

\* await status_msg.edit_text(... error banner ...) of the except clause;
\* an exception it raises leaves the handler
EditError ==
    /\ pc = "edit_error"
    /\ \/ /\ status_msg' = Banner(exc.desc)
          /\ pc' = "Error"
          /\ UNCHANGED exc
       \/ /\ \E e \in ErrDescs : Escapes(e)
          /\ UNCHANGED status_msg
    /\ UNCHANGED <<OPENAI_MODEL, others>>
    /\ UNCHANGED <<file_name, file_size, file_ext, temp_path, disk, content,
                   result, formatted, max_chunk, chunks, i, sent, log>>

\* the states in which the run of handle_document is over: "Rejected" after
\* a failed size or format check, "Completed" after the final message,
\* "Error" after the except clause wrote its banner, "Escaped" when an
\* exception left the handler
Ended == pc \in {"Rejected", "Completed", "Error", "Escaped"}

\* One run of handle_document, from the arrival of a document to the end of
\* the handler.  Each action is an awaited call with its outcome (it
\* returns, or it raises one of ErrDescs) and the synchronous code that
\* follows it up to the next awaited call.  Runs of other documents share
\* no state with this one: every run has its own locals and its own
\* temporary file.  NamedTemporaryFile is taken to succeed, and os.unlink to
\* succeed on a file that exists.
Next ==
    \/ Receive
    \/ SendTooLarge
    \/ SendUnsupported
    \/ SendStatus
    \/ GetFile
    \/ Download
    \/ EditLoaded
    \/ Extract
    \/ EditExtracted
    \/ GradeReturn
    \/ EditDone
    \/ SendChunk
    \/ SendReady
    \/ EditError

Spec == Init /\ [][Next]_vars

----------------------------------------------------------------------------
(* The chunker as a function of its input: every text of up to MaxLen      *)
(* characters with every budget up to MaxBudget, and the report of ten     *)
(* lines of 400 characters with the budget 1000.                           *)

ChunkAlphabet == {"a", "\n", "\r"}

TextsUpTo(n) == UNION {[1..k -> ChunkAlphabet] : k \in 0..n}

TenLines == Join([k \in 1..10 |-> Rep(400, "a")], <<"\n">>)

ChunkInputs ==
    [text : TextsUpTo(MaxLen), budget : 1..MaxBudget]
        \cup [text : {TenLines}, budget : {1000} \cup (1..MaxBudget)]

ChunkInit ==
    /\ pc = "chunk"
    /\ \E in \in ChunkInputs :
          /\ formatted = in.text
          /\ max_chunk = in.budget
    /\ file_name = <<>>
    /\ file_size = 0
    /\ file_ext = <<>>
    /\ status_msg = NoMessage
    /\ temp_path = "None"
    /\ disk = {}
    /\ content = <<>>
    /\ result = NoResult
    /\ exc = NoExc
    /\ chunks = <<>>
    /\ i = 0
    /\ sent = <<>>
    /\ log = InitLog
    /\ OPENAI_MODEL = "unset"
    /\ others = 0

\* the chunker of handle_document applied to formatted
ChunkerRun ==
    /\ pc = "chunk"
    /\ chunks' = Chunker(formatted, max_chunk)
    /\ pc' = "chunked"
    /\ UNCHANGED <<OPENAI_MODEL, others>>
    /\ UNCHANGED <<file_name, file_size, file_ext, status_msg, temp_path, disk,
                   content, result, exc, formatted, max_chunk, i, sent, log>>

ChunkNext == ChunkerRun

ChunkSpec == ChunkInit /\ [][ChunkNext]_vars

----------------------------------------------------------------------------
(* The chunker and the delivery that follows it, for every formatted text  *)
(* of ChunkInputs: the part of handle_document from max_chunk = 3500 to    *)
(* the final message, with the except clause behind it.                    *)

\* the chunker of handle_document applied to formatted, up to the first send
ChunkAndDeliver ==
    /\ pc = "chunk"
    /\ chunks' = Chunker(formatted, max_chunk)
    /\ i' = 0
    /\ pc' = AfterChunker(chunks')
    /\ UNCHANGED <<file_name, file_size, file_ext, status_msg, temp_path, disk,
                   content, result, exc, formatted, max_chunk, sent, log,
                   OPENAI_MODEL, others>>

DeliverNext == ChunkAndDeliver \/ SendChunk \/ SendReady \/ EditError

DeliverSpec == ChunkInit /\ [][DeliverNext]_vars

----------------------------------------------------------------------------
(* The run next to the runs of other submissions on the same event loop.   *)
(* A coroutine gives the loop to the others only where it awaits something *)
(* that suspends: get_file, download, every chat send and edit.            *)
(* check_with_ai is awaited, but its body awaits nothing: it calls the     *)
(* synchronous client and so holds the loop's thread until the endpoint    *)
(* has answered.  others counts the steps the other runs have taken.       *)

\* a run of another submission takes a step
OtherRunStep ==
    /\ pc # "grading"
    /\ others < MaxOtherSteps
    /\ others' = others + 1
    /\ UNCHANGED <<pc, file_name, file_size, file_ext, status_msg, temp_path,
                   disk, content, result, exc, formatted, max_chunk, chunks,
                   i, sent, log, OPENAI_MODEL>>

ConcNext == Next \/ OtherRunStep

ConcSpec == Init /\ [][ConcNext]_vars

----------------------------------------------------------------------------
(* The formatter as a function of its input: every raw answer of up to     *)
(* MaxRaw characters, and some longer ones; then the formatter applied to  *)
(* its own output.  content keeps the raw answer, result is what the       *)
(* formatter is applied to, formatted is what it returns.                  *)

FormatAlphabet == {"a", "A", ":", "-", "*", " ", "\n", "<", ">", "&"}

RawUpTo(n) == UNION {[1..k -> FormatAlphabet] : k \in 0..n}

\* "HEADER:\n- item one\nPlain line"
HeaderItemPlain ==
    <<"H", "E", "A", "D", "E", "R", ":", "\n", "-", " ", "i", "t", "e", "m",
      " ", "o", "n", "e", "\n", "P", "l", "a", "i", "n", " ", "l", "i", "n",
      "e">>

FormatInputs ==
    RawUpTo(MaxRaw)
        \cup { HeaderItemPlain,
               Rep(199, "A"), Rep(200, "A"), Rep(200, "a") \o <<":">>,
               <<"-", " ", "I", "T", "E", "M">>,
               <<Bullet, " ", "x", "<", "y", "\r", "\n", "'", "\"", ";">>,
               <<" ", "a", " ", "&", " ", "b", " ", "\n">> }

FormatInit ==
    /\ pc = "format"
    /\ \E raw \in FormatInputs :
          /\ content = raw
          /\ result = [none |-> FALSE, text |-> raw]
    /\ max_chunk = MaxChunk
    /\ file_name = <<>>
    /\ file_size = 0
    /\ file_ext = <<>>
    /\ status_msg = NoMessage
    /\ temp_path = "None"
    /\ disk = {}
    /\ exc = NoExc
    /\ formatted = <<>>
    /\ chunks = <<>>
    /\ i = 0
    /\ sent = <<>>
    /\ log = InitLog
    /\ OPENAI_MODEL = "unset"
    /\ others = 0

\* formatted = format_llm_to_html(result)
FormatRun ==
    /\ pc = "format"
    /\ formatted' = format_llm_to_html(result.text)
    /\ pc' = "formatted"
    /\ UNCHANGED <<file_name, file_size, file_ext, status_msg, temp_path, disk,
                   content, result, exc, max_chunk, chunks, i, sent, log,
                   OPENAI_MODEL, others>>

\* format_llm_to_html applied to what it returned
FormatAgain ==
    /\ pc = "formatted"
    /\ result' = [none |-> FALSE, text |-> formatted]
    /\ formatted' = format_llm_to_html(formatted)
    /\ pc' = "reformatted"
    /\ UNCHANGED <<file_name, file_size, file_ext, status_msg, temp_path, disk,
                   content, exc, max_chunk, chunks, i, sent, log, OPENAI_MODEL,
                   others>>

FormatNext == FormatRun \/ FormatAgain

FormatSpec == FormatInit /\ [][FormatNext]_vars

----------------------------------------------------------------------------
(* What the claims speak of.                                               *)

\* the temporary files of the run that are still on disk
LeftOnDisk == log.created \cap disk

IsChunkMessage(m) == m.kind \in {"result", "continuation"}

\* the result chunks delivered so far, in order
DeliveredChunks == SelectSeq(sent, IsChunkMessage)

\* the text the delivered result chunks carry
DeliveredText ==
    Concat([k \in 1..Len(DeliveredChunks) |-> DeliveredChunks[k].body])

\* the lines of every chunk, chunk by chunk
ChunkLines == [k \in 1..Len(chunks) |-> SplitLinesKeep(chunks[k])]

\* how many lines each chunk holds
LinesPerChunk == [k \in 1..Len(chunks) |-> Len(ChunkLines[k])]

----------------------------------------------------------------------------
(* C1..C10.                                                                *)

\* C1: a run that has entered Downloaded (the download succeeded and
\* temp_path is set) has deleted its temporary file by the time it ends,
\* whichever way it ends.
C1_TempFileDeletedOnEveryExit ==
    (log.download = "ok" /\ Ended) => LeftOnDisk = {}

\* a run that delivered its first chunk, failed on the next one, and ended
C1_Witness ==
    /\ pc = "Error"
    /\ log.download = "ok"
    /\ log.failedAt = "send_chunk"
    /\ i >= 1
    /\ log.created = {TmpFile}
    /\ disk = {}

\* C2: no temporary file the run created exists when the run reaches
\* Completed or Error, also when the download into the file failed.
C2_NoTempFileOutlivesRun ==
    pc \in {"Completed", "Error"} => LeftOnDisk = {}

\* C3: the chunks put together are the formatted text, and the lines of
\* the chunks, in order, are the lines of the formatted text: no line is
\* split across two chunks.
C3_ChunksKeepLinesWhole ==
    pc = "chunked" =>
        /\ Concat(chunks) = formatted
        /\ Concat(ChunkLines) = SplitLinesKeep(formatted)

\* several chunks, one of them of several lines
C3_Witness ==
    /\ pc = "chunked"
    /\ Len(chunks) >= 2
    /\ \E k \in 1..Len(chunks) : LinesPerChunk[k] >= 2

\* C4: of a non-empty formatted text every chunk is within the budget,
\* unless it is one line longer than the budget.
C4_ChunksWithinBudget ==
    (pc = "chunked" /\ formatted # <<>>) =>
        \A k \in 1..Len(chunks) :
            \/ Len(chunks[k]) <= max_chunk
            \/ LinesPerChunk[k] = 1 /\ Len(chunks[k]) > max_chunk

\* a chunk of one line over the budget beside a chunk of several lines that
\* fills the budget exactly
C4_Witness ==
    /\ pc = "chunked"
    /\ \E k \in 1..Len(chunks) :
          LinesPerChunk[k] = 1 /\ Len(chunks[k]) > max_chunk
    /\ \E k \in 1..Len(chunks) :
          LinesPerChunk[k] >= 2 /\ Len(chunks[k]) = max_chunk

\* ten lines of 400 characters chunked with the budget 1000
ScenarioE == pc = "chunked" /\ formatted = TenLines /\ max_chunk = 1000

\* C5 as stated: ten lines of 400 characters and the budget 1000 give four
\* chunks of 2, 2, 2 and 4 lines.
C5_FourChunks == ScenarioE => LinesPerChunk = <<2, 2, 2, 4>>

\* C5 as amended: ten lines of 400 characters and the budget 1000 give
\* five chunks of 2 lines each.
C5_FiveChunksOfTwo == ScenarioE => LinesPerChunk = <<2, 2, 2, 2, 2>>

C5_Witness == ScenarioE /\ Len(chunks) = 5

C7_EveryFailureEndsInError ==
    (log.failedAt # "none" /\ Ended) =>
        /\ pc = "Error"
        /\ status_msg.kind = "error"

\* C8: when the extractor returned a text that is empty once trimmed, the
\* handler is in its except clause with the empty-content exception or past
\* it, the endpoint was not invoked, no result chunk was delivered and the
\* temporary file is deleted; the banner, once written, carries the
\* empty-content message.
C8_EmptyContentIsAnError ==
    (log.extract = "ok" /\ Strip(content) = <<>>) =>
        /\ pc \in {"edit_error", "Error", "Escaped"}
        /\ log.failedAt = "empty"
        /\ pc # "Escaped" => exc = Raised(EmptyContentMsg)
        /\ pc = "Error" => status_msg = Message("error", 0, EmptyContentMsg)
        /\ ~log.graded
        /\ DeliveredChunks = <<>>
        /\ LeftOnDisk = {}

\* a text of white space only was extracted and the run ended in Error
C8_Witness ==
    /\ pc = "Error"
    /\ log.extract = "ok"
    /\ content # <<>>
    /\ Strip(content) = <<>>
    /\ log.created = {TmpFile}

\* C9: a document over the maximum size, or of an unsupported format, is
\* turned away with the message of the check it failed, the size check
\* first; no temporary file is created, nothing is downloaded, and neither
\* the extractor nor the endpoint is called.
C9_RejectedBeforeAnyWork ==
    LET big == file_size > MAX_FILE_SIZE
        foreign == FileExt(file_name) \notin SUPPORTED_FORMATS
        kind == IF big THEN "too_large" ELSE "unsupported"
    IN  (pc # "idle" /\ (big \/ foreign)) =>
            /\ pc \in {IF big THEN "send_too_large" ELSE "send_unsupported",
                       "Rejected", "Escaped"}
            /\ log.verdict = IF big THEN "FileTooLarge"
                             ELSE "UnsupportedFormat"
            /\ \A k \in 1..Len(sent) : sent[k].kind = kind
            /\ pc = "Rejected" => Len(sent) = 1
            /\ pc # "Rejected" => sent = <<>>
            /\ log.created = {} /\ disk = {} /\ temp_path = "None"
            /\ log.download = "none"
            /\ log.extract = "none"
            /\ ~log.graded
            /\ status_msg = NoMessage

\* a document that fails both checks was turned away as too large
C9_Witness ==
    /\ pc = "Rejected"
    /\ file_size > MAX_FILE_SIZE
    /\ FileExt(file_name) \notin SUPPORTED_FORMATS
    /\ sent = <<Message("too_large", file_size, <<>>)>>

\* C10: the size check turns a document away exactly when its size is
\* over 20 MiB (20971520 bytes); a document of exactly 20 MiB passes.
C10_TooLargeIffOverMaximum ==
    pc # "idle" => (log.verdict = "FileTooLarge" <=> file_size > 20971520)

\* a document of exactly 20 MiB went on to the download
C10_Witness ==
    /\ file_size = 20971520
    /\ log.verdict = "Accepted"
    /\ log.download = "ok"

----------------------------------------------------------------------------
(* C11..C20.                                                               *)

\* name ends with ext, letters compared without regard to case, and has at
\* least one character before it
EndsWithIgnoringCase(name, ext) ==
    /\ Len(name) > Len(ext)
    /\ \A k \in 1..Len(ext) :
          ToLower(name[Len(name) - Len(ext) + k]) = ext[k]

\* C11: a document that passed the size check passes the format check
\* exactly when its name ends, in any case of letters, with .pdf, .docx or
\* .txt.
C11_FormatAcceptedIffSupported ==
    (pc # "idle" /\ file_size <= MAX_FILE_SIZE) =>
        (log.verdict = "Accepted" <=>
            \/ EndsWithIgnoringCase(file_name, <<".", "p", "d", "f">>)
            \/ EndsWithIgnoringCase(file_name, <<".", "d", "o", "c", "x">>)
            \/ EndsWithIgnoringCase(file_name, <<".", "t", "x", "t">>))

\* a document named with .Docx went on to the download
C11_Witness ==
    /\ file_name = <<"w", ".", "D", "o", "c", "x">>
    /\ log.verdict = "Accepted"
    /\ log.download = "ok"

\* s.split(sep) for a character sep
RECURSIVE SplitFrom(_, _, _)
SplitFrom(s, start, seps) ==
    IF seps = {} THEN <<SubSeq(s, start, Len(s))>>
    ELSE LET e == Min(seps)
         IN  <<SubSeq(s, start, e - 1)>> \o SplitFrom(s, e + 1, seps \ {e})

SplitOn(s, sep) == SplitFrom(s, 1, {k \in 1..Len(s) : s[k] = sep})

\* the lines of the formatted text, as they were joined
OutLines == SplitOn(formatted, "\n")

StartsWith(s, prefix) ==
    Len(s) >= Len(prefix) /\ SubSeq(s, 1, Len(prefix)) = prefix

EndsWith(s, suffix) ==
    /\ Len(s) >= Len(suffix)
    /\ SubSeq(s, Len(s) - Len(suffix) + 1, Len(s)) = suffix

\* the character references html.escape writes
Entities ==
    { <<"&", "a", "m", "p", ";">>, <<"&", "l", "t", ";">>,
      <<"&", "g", "t", ";">>, <<"&", "q", "u", "o", "t", ";">>,
      <<"&", "#", "x", "2", "7", ";">> }

\* no "<", no ">", and every "&" opens a character reference
IsEscapedText(e) ==
    \A k \in 1..Len(e) :
        /\ e[k] \notin {"<", ">"}
        /\ e[k] = "&" =>
              \E ent \in Entities :
                  /\ k + Len(ent) - 1 <= Len(e)
                  /\ SubSeq(e, k, k + Len(ent) - 1) = ent

IsBoldLine(l) ==
    /\ Len(l) >= 7
    /\ StartsWith(l, <<"<", "b", ">">>)
    /\ EndsWith(l, <<"<", "/", "b", ">">>)
    /\ IsEscapedText(SubSeq(l, 4, Len(l) - 4))

IsBulletLine(l) ==
    /\ StartsWith(l, <<Bullet, " ">>)
    /\ IsEscapedText(SubSeq(l, 3, Len(l)))

\* C12: every line of the formatter's output is empty, or escaped text
\* between <b> and </b>, or escaped text after a bullet and a space, or
\* escaped text; escaped text holds no "<", no ">", and no "&" but the one
\* that opens a character reference.
C12_OutputIsEscaped ==
    pc = "formatted" =>
        \A k \in 1..Len(OutLines) :
            \/ OutLines[k] = <<>>
            \/ IsBoldLine(OutLines[k])
            \/ IsBulletLine(OutLines[k])
            \/ IsEscapedText(OutLines[k])

\* a bullet line, a heading and a plain line, each with markup characters
C12_Witness ==
    /\ pc = "formatted"
    /\ result.text = <<Bullet, " ", "x", "<", "y", "\r", "\n", "'", "\"", ";">>
    /\ Len(OutLines) = 2
    /\ OutLines[1] = <<Bullet, " ", "x", "&", "l", "t", ";", "y">>

\* the characters html.escape rewrites
MarkupChars == {"&", "<", ">", "\"", "'"}

\* one line that is neither empty, nor a heading, nor a bullet
IsPlainInput(x) ==
    /\ Len(SplitLines(x)) = 1
    /\ Strip(x) # <<>>
    /\ ~IsHeading(Strip(x))
    /\ ~IsBullet(Strip(x))

\* C13 as stated: formatting the formatted form of a plain line returns it
\* unchanged, whatever the line holds.
C13_IdempotentOnPlainLines ==
    (pc = "reformatted" /\ IsPlainInput(content)) => formatted = result.text

\* C13: formatting the formatted form of a plain line returns it unchanged
\* exactly when the line holds none of & < > " ': the character references
\* written by the first pass are escaped again by the second.
C13_IdempotentIffNoMarkup ==
    (pc = "reformatted" /\ IsPlainInput(content)) =>
        (formatted = result.text <=>
            \A k \in 1..Len(content) : content[k] \notin MarkupChars)

\* a plain line with "&" formatted twice
C13_Witness ==
    /\ pc = "reformatted"
    /\ content = <<" ", "a", " ", "&", " ", "b", " ", "\n">>
    /\ result.text = <<"a", " ", "&", "a", "m", "p", ";", " ", "b">>
    /\ formatted = <<"a", " ", "&", "a", "m", "p", ";", "a", "m", "p", ";",
                     " ", "b">>

\* the lines the formatter reads
InLines == SplitLines(result.text)

\* ends with ':' or is entirely upper-case and shorter than 200 characters
LooksLikeHeading(s) ==
    /\ s # <<>>
    /\ \/ s[Len(s)] = ":"
       \/ /\ \E k \in 1..Len(s) : s[k] \in Upper
          /\ \A k \in 1..Len(s) : s[k] \notin Lower
          /\ Len(s) < 200

StartsWithBulletChar(s) == s # <<>> /\ s[1] \in {"-", Bullet, "*"}

\* C14: a trimmed line that ends with ':' or is entirely upper-case and
\* shorter than 200 characters comes out as a bold heading, also when it
\* starts with a bullet character; exactly the other lines that start with a
\* bullet character come out with the bullet prefix; and
\* "HEADER:\n- item one\nPlain line" comes out as <b>HEADER:</b>,
\* a bullet with item one, and Plain line.
C14_HeadingBeforeBullet ==
    pc = "formatted" =>
        /\ InLines # <<>> => Len(OutLines) = Len(InLines)
        /\ \A k \in 1..Len(InLines) :
              LET s == Strip(InLines[k])
                  out == OutLines[k]
              IN  /\ LooksLikeHeading(s) <=> StartsWith(out, <<"<", "b", ">">>)
                  /\ LooksLikeHeading(s) =>
                        out = <<"<", "b", ">">> \o Escape(s)
                                  \o <<"<", "/", "b", ">">>
                  /\ (StartsWithBulletChar(s) /\ ~LooksLikeHeading(s))
                        <=> StartsWith(out, <<Bullet, " ">>)
        /\ result.text = HeaderItemPlain =>
              OutLines = << <<"<", "b", ">", "H", "E", "A", "D", "E", "R", ":",
                              "<", "/", "b", ">">>,
                            <<Bullet, " ", "i", "t", "e", "m", " ", "o", "n",
                              "e">>,
                            <<"P", "l", "a", "i", "n", " ", "l", "i", "n",
                              "e">> >>

\* a line that is a heading and starts with a bullet character
C14_Witness ==
    /\ pc = "formatted"
    /\ result.text = <<"-", " ", "I", "T", "E", "M">>
    /\ formatted = <<"<", "b", ">", "-", " ", "I", "T", "E", "M", "<", "/",
                     "b", ">">>

\* the chunks delivered so far are the first chunks of the list, in order,
\* the first as the result and every later one as a continuation whose
\* number is number(k) for the k-th chunk
DeliveredInOrder(number(_)) ==
    /\ Len(DeliveredChunks) <= Len(chunks)
    /\ pc \in {"send_ready", "Completed"} =>
          Len(DeliveredChunks) = Len(chunks)
    /\ \A k \in 1..Len(DeliveredChunks) :
          /\ DeliveredChunks[k].body = chunks[k]
          /\ IF k = 1 THEN DeliveredChunks[k].kind = "result"
             ELSE /\ DeliveredChunks[k].kind = "continuation"
                  /\ DeliveredChunks[k].n = number(k)

CountFromSecond(k) == k - 1

CountFromFirst(k) == k

\* C15 as stated: the chunks are sent in order, the first as the result, the
\* second as continuation 1, the third as continuation 2.
C15_ContinuationsFromOne == DeliveredInOrder(CountFromSecond)

\* C15: the chunks are sent in order, the first as the result and the k-th,
\* for k of 2 and more, as continuation k: the second chunk carries 2.
C15_ContinuationsFromTwo == DeliveredInOrder(CountFromFirst)

\* three chunks delivered
C15_Witness ==
    /\ pc = "Completed"
    /\ Len(chunks) = 3
    /\ Len(DeliveredChunks) = 3
    /\ DeliveredChunks[2].n = 2
    /\ DeliveredChunks[3].n = 3

\* C16: the model identifier of every grading request is the value of
\* OPENAI_MODEL when that is set, and the default identifier otherwise.
C16_RequestUsesConfiguredModel ==
    log.graded => log.model = MODEL

\* C17: while the run waits for the grading call to return, a run of another
\* submission can take a step.
C17_OthersStepWhileGrading ==
    (pc = "grading" /\ others < MaxOtherSteps) => ENABLED OtherRunStep

\* the place of every position of the handler in the order of its stages
StageOf(p) ==
    CASE p = "idle" -> 0
      [] p = "send_too_large" -> 1
      [] p = "send_unsupported" -> 2
      [] p = "send_status" -> 3
      [] p = "get_file" -> 4
      [] p = "download" -> 5
      [] p = "edit_loaded" -> 6
      [] p = "extract" -> 7
      [] p = "edit_extracted" -> 8
      [] p = "grading" -> 9
      [] p = "edit_done" -> 10
      [] p = "send_chunk" -> 11
      [] p = "send_ready" -> 12
      [] p = "Completed" -> 13
      [] p = "Rejected" -> 13
      [] p = "edit_error" -> 14
      [] p = "Error" -> 15
      [] p = "Escaped" -> 16

ReadySent == \E k \in 1..Len(sent) : sent[k].kind = "ready"

\* what has happened so far has happened after all the stages before it
StagesInOrder ==
    /\ (pc # "idle" /\ file_size > MAX_FILE_SIZE) =>
          log.verdict = "FileTooLarge"
    /\ log.download # "none" =>
          /\ log.verdict = "Accepted"
          /\ file_size <= MAX_FILE_SIZE
          /\ FileExt(file_name) \in SUPPORTED_FORMATS
    /\ log.extract # "none" => log.download = "ok"
    /\ log.graded => (log.extract = "ok" /\ Strip(content) # <<>>)
    /\ ~result.none => (log.graded /\ StageOf(pc) > StageOf("grading"))
    /\ (formatted # <<>> \/ chunks # <<>>) => ~result.none
    /\ DeliveredChunks # <<>> =>
          (~result.none /\ chunks = Chunker(formatted, max_chunk))
    /\ ReadySent =>
          /\ pc = "Completed"
          /\ Len(DeliveredChunks) = Len(chunks)
          /\ \A k \in 1..Len(chunks) : DeliveredChunks[k].body = chunks[k]

\* a step moves the run to a later stage; the delivery loop alone is
\* entered again, for the next chunk
StageAdvances ==
    \/ StageOf(pc') > StageOf(pc)
    \/ /\ pc = "send_chunk"
       /\ pc' = "send_chunk"
       /\ i' = i + 1
       /\ i' < Len(chunks)

\* C18: the stages of a run happen in the order size check, format check,
\* download, extraction, grading, formatting, delivery, completion, each at
\* most once; the endpoint is invoked only after both checks passed and the
\* extracted text is not empty, no chunk is sent before grading returned,
\* and the final message is sent only after every chunk was sent.
C18_StagesInOrder == []StagesInOrder /\ [][StageAdvances]_vars

\* a run that went through every stage and delivered three chunks before
\* the final message
C18_Witness ==
    /\ pc = "Completed"
    /\ ReadySent
    /\ Len(DeliveredChunks) = 3
    /\ log.graded
    /\ log.extract = "ok"

\* the call that raised came after the deletion that follows grading
FailedAfterGrading ==
    log.failedAt \in {"edit_done", "format", "send_chunk", "send_ready"}

\* C19: past the grading call the temporary file is deleted and temp_path
\* still names it; when the status edit, the formatting or a send then
\* raises, the second deletion fails, the failure is swallowed, and the run
\* ends with the error banner written to the status message.
C19_SecondDeletionSwallowedBannerWritten ==
    /\ pc \in {"edit_done", "send_chunk", "send_ready", "Completed"} =>
          (temp_path = TmpFile /\ TmpFile \notin disk)
    /\ FailedAfterGrading => (log.swallowed /\ TmpFile \notin disk)
    /\ (FailedAfterGrading /\ Ended) =>
          (pc = "Error" /\ status_msg = Banner(exc.desc))

\* no chunk is empty, and there is no chunk exactly when the formatted text
\* is empty
ChunksNonEmpty ==
    /\ \A k \in 1..Len(chunks) : chunks[k] # <<>>
    /\ chunks = <<>> <=> formatted = <<>>

====
